---- MODULE Spec2Model ----
(***************************************************************************)
(* Prolongation of infinitesimal generators (Prolong.ipynb).               *)
(*                                                                         *)
(* Python strings are sequences of one-character strings, Python lists are *)
(* sequences, list positions are 0-based in the source and 1-based here.   *)
(* A sympy Symbol is represented by its name; a sympy expression by its    *)
(* canonical polynomial (monomial -> non-zero integer coefficient, a       *)
(* monomial being a bag of symbol names).                                  *)
(***************************************************************************)
EXTENDS Integers, Sequences, FiniteSets, Bags, TLC

VARIABLES
    kernel,   \* the notebook kernel's bindings of totDiv, TotDiv and diffOrd
    X,        \* the caller's list of independent-variable labels
    U,        \* the caller's list of dependent-variable labels
    v,        \* the caller's vector-field list [xi_1..xi_p, phi_1..phi_q]
    call,     \* the call evaluated last: function name and arguments
    out       \* what that call returned or raised

vars == <<kernel, X, U, v, call, out>>

----------------------------------------------------------------------------
(* Bounds of the model.                                                    *)

MaxP == 3
MaxQ == 2
MaxOrder == 3
\* The most candidates q*p^n the scan of njet is given.
MaxCandidates == 54

----------------------------------------------------------------------------
(* Python values.                                                          *)

\* Code points of the characters that occur in labels and in str(None).
ord(c) ==
    CASE c = "N" -> 78  [] c = "a" -> 97  [] c = "b" -> 98  [] c = "e" -> 101
      [] c = "n" -> 110 [] c = "o" -> 111 [] c = "t" -> 116 [] c = "u" -> 117
      [] c = "v" -> 118 [] c = "w" -> 119 [] c = "x" -> 120 [] c = "y" -> 121
      [] c = "z" -> 122

\* list.insert of c into the sorted list s, before the first larger element.
RECURSIVE insort(_, _)
insort(s, c) ==
    IF s = <<>> THEN <<c>>
    ELSE IF ord(c) < ord(Head(s)) THEN <<c>> \o s
    ELSE <<Head(s)>> \o insort(Tail(s), c)

\* sorted(s) for a string s: the list of its characters in code-point order.
RECURSIVE sorted(_)
sorted(s) == IF s = <<>> THEN <<>> ELSE insort(sorted(Tail(s)), Head(s))

\* The value None, and str() of a label, a Symbol or None.
None == <<"None">>
str(a) == IF a = None THEN <<"N", "o", "n", "e">> ELSE a

\* A returned value, and a raised exception.
Return(val) == [exc |-> "none", val |-> val]
Raise(e) == [exc |-> e, val |-> <<>>]

----------------------------------------------------------------------------
(* Jet-space symbols.                                                      *)

\* jet, inner loop: for j in range(len(X)): J.append(U[i]+X[j])  (j 1-based)
RECURSIVE jetInner(_, _, _)
jetInner(Xs, u, j) ==
    IF j > Len(Xs) THEN <<>> ELSE <<u \o Xs[j]>> \o jetInner(Xs, u, j + 1)

\* jet, outer loop: for i in range(len(U))  (i 1-based)
RECURSIVE jetOuter(_, _, _)
jetOuter(Xs, Us, i) ==
    IF i > Len(Us) THEN <<>>
    ELSE jetInner(Xs, Us[i], 1) \o jetOuter(Xs, Us, i + 1)

jet(Xs, Us) == jetOuter(Xs, Us, 1)

\* njet, first loop: J = U; for i in range(n): J = jet(X,J)
RECURSIVE njetCandidates(_, _, _)
njetCandidates(Xs, Us, n) ==
    IF n = 0 THEN Us ELSE jet(Xs, njetCandidates(Xs, Us, n - 1))

\* sorted(J[a]) for every a: the keys the scan of njet compares, kept next to
\* J and updated with it.
RECURSIVE sortedEach(_)
sortedEach(J) ==
    IF J = <<>> THEN <<>> ELSE <<sorted(Head(J))>> \o sortedEach(Tail(J))

\* The position (1-based) of the first element of L equal to x, from a on.
RECURSIVE indexFrom(_, _, _)
indexFrom(L, x, a) == IF L[a] = x THEN a ELSE indexFrom(L, x, a + 1)

\* The list L without its element at position a (1-based).
removeAt(L, a) == SubSeq(L, 1, a - 1) \o SubSeq(L, a + 1, Len(L))

\* njetInner keeping the later spelling: on a match J[i] takes the text of
\* J[k] before J[k] is removed.
RECURSIVE njetInnerKeepLater(_, _, _, _)
njetInnerKeepLater(S, i, k, t) ==
    IF t <= 0 THEN S
    ELSE IF S[2][i + 1] = S[2][k + 1]
         THEN LET J2 == [S[1] EXCEPT ![i + 1] = S[1][k + 1]]
              IN  njetInnerKeepLater(<<removeAt(J2, k + 1), removeAt(S[2], k + 1)>>,
                                     i, k, t - 1)
         ELSE njetInnerKeepLater(S, i, k + 1, t - 1)

\* njet, inner loop: t iterations are left of range(i+1,len(J)-1), whose
\* bounds were fixed when the loop was entered; i and k are 0-based.  S is
\* the pair of J and its keys, S[2][a] = sorted(S[1][a]); J.remove(J[k]) drops
\* the first element equal to J[k].
RECURSIVE njetInner(_, _, _, _)
njetInner(S, i, k, t) ==
    IF t <= 0 THEN S
    ELSE IF S[2][i + 1] = S[2][k + 1]
         THEN LET a == indexFrom(S[1], S[1][k + 1], 1)
              IN  njetInner(<<removeAt(S[1], a), removeAt(S[2], a)>>, i, k, t - 1)
         ELSE njetInner(S, i, k + 1, t - 1)

\* njetOuter with the inner range one short: range(i+1,len(J)-2).
RECURSIVE njetOuterShortRange(_, _, _)
njetOuterShortRange(S, i, len0) ==
    IF i >= len0 THEN S[1]
    ELSE LET S2 == njetInner(S, i, i + 1, (Len(S[1]) - 2) - (i + 1))
         IN  IF i >= Len(S2[1]) - 2 THEN S2[1]
             ELSE njetOuterShortRange(S2, i + 1, len0)

\* njet, outer loop: i runs over range(len0), len0 the length before the scan;
\* the loop is left once i >= len(J)-2.
RECURSIVE njetOuter(_, _, _)
njetOuter(S, i, len0) ==
    IF i >= len0 THEN S[1]
    ELSE LET S2 == njetInner(S, i, i + 1, (Len(S[1]) - 1) - (i + 1))
         IN  IF i >= Len(S2[1]) - 2 THEN S2[1] ELSE njetOuter(S2, i + 1, len0)

njet(Xs, Us, n) ==
    LET J == njetCandidates(Xs, Us, n)
    IN  njetOuter(<<J, sortedEach(J)>>, 0, Len(J))

\* fulljetLoop appending njet(X,U,i) instead of njet(X,U,i+1).
RECURSIVE fulljetLoopOffByOne(_, _, _, _, _)
fulljetLoopOffByOne(Xs, Us, J, i, n) ==
    IF i >= n THEN J
    ELSE fulljetLoopOffByOne(Xs, Us, J \o njet(Xs, Us, i), i + 1, n)

\* fulljet: J = X+U; for i in range(n): J = J+njet(X,U,i+1)
RECURSIVE fulljetLoop(_, _, _, _, _)
fulljetLoop(Xs, Us, J, i, n) ==
    IF i >= n THEN J ELSE fulljetLoop(Xs, Us, J \o njet(Xs, Us, i + 1), i + 1, n)

fulljet(Xs, Us, n) == fulljetLoop(Xs, Us, Xs \o Us, 0, n)

----------------------------------------------------------------------------
(* Derivative symbols.                                                     *)

\* uJalpha's loop: the Symbol named by the first J[i] (i 1-based) made of the
\* characters of key; None when the loop ends without a return.
RECURSIVE uJalphaFind(_, _, _)
uJalphaFind(J, key, i) ==
    IF i > Len(J) THEN None
    ELSE IF key = sorted(J[i]) THEN J[i]
    ELSE uJalphaFind(J, key, i + 1)

\* uJalpha comparing str(u)+str(x) itself, not its sorted characters.
uJalphaUnsorted(u, x, Xs, Us) ==
    LET J == njet(Xs, Us, Len(str(u)))
        hit == {i \in DOMAIN J : J[i] = str(u) \o str(x)}
    IN  IF hit = {} THEN None ELSE J[CHOOSE i \in hit : TRUE]

\* uJalpha naming the symbol by str(u)+str(x) as written, in the order the
\* derivatives were taken, without the lookup of the canonical spelling.
uJalphaAsWritten(u, x, Xs, Us) == str(u) \o str(x)

\* uJalpha: J = njet(X,U,len(str(u))), then the loop.
uJalpha(u, x, Xs, Us) ==
    uJalphaFind(njet(Xs, Us, Len(str(u))), sorted(str(u) \o str(x)), 1)

\* divUJi's loop: for j in range(len(J)): f = uJalpha(f,X[J[j]],X,U); the
\* positions J[j] are 0-based as in the source, j is 1-based.
RECURSIVE divUJiLoop(_, _, _, _, _)
divUJiLoop(Xs, Us, f, J, j) ==
    IF j > Len(J) THEN f
    ELSE divUJiLoop(Xs, Us, uJalpha(f, Xs[J[j] + 1], Xs, Us), J, j + 1)

\* divUJi: the loop over J, then f = uJalpha(f,X[i],X,U).
divUJi(Xs, Us, u, J, i) ==
    uJalpha(divUJiLoop(Xs, Us, u, J, 1), Xs[i + 1], Xs, Us)

----------------------------------------------------------------------------
(* sympy expressions, as canonical polynomials over the Symbols.           *)

Zero == <<>>
One == EmptyBag :> 1

\* Symbol(name) as an expression.
PolySym(s) == SetToBag({s}) :> 1

\* The coefficient of the monomial m in P.
Coef(P, m) == IF m \in DOMAIN P THEN P[m] ELSE 0

\* P + Q.
PolyAdd(P, Q) ==
    LET D == {m \in DOMAIN P \cup DOMAIN Q : Coef(P, m) + Coef(Q, m) # 0}
    IN  [m \in D |-> Coef(P, m) + Coef(Q, m)]

\* c * P for an integer c.
PolyScale(c, P) == IF c = 0 THEN Zero ELSE [m \in DOMAIN P |-> c * P[m]]

\* P - Q.
PolySub(P, Q) == PolyAdd(P, PolyScale(-1, Q))

\* The sum of P[m1]*Q[m2] over the pairs in S.
RECURSIVE SumProducts(_, _, _)
SumProducts(P, Q, S) ==
    IF S = {} THEN 0
    ELSE LET pr == CHOOSE pr \in S : TRUE
         IN  P[pr[1]] * Q[pr[2]] + SumProducts(P, Q, S \ {pr})

\* P * Q.
PolyMul(P, Q) ==
    LET pairs(m) == {pr \in (DOMAIN P) \X (DOMAIN Q) : pr[1] (+) pr[2] = m}
        c(m) == SumProducts(P, Q, pairs(m))
        D == {pr[1] (+) pr[2] : pr \in (DOMAIN P) \X (DOMAIN Q)}
    IN  [m \in {m \in D : c(m) # 0} |-> c(m)]

\* diff(P, s): the partial derivative of P by the Symbol named s.
PolyDiff(P, s) ==
    LET one == SetToBag({s})
        D == {m \in DOMAIN P : BagIn(s, m)}
    IN  [m \in {d (-) one : d \in D} |->
            P[m (+) one] * CopiesIn(s, m (+) one)]

----------------------------------------------------------------------------
(* Total derivatives.                                                      *)

\* The bindings of the names totDiv, TotDiv and diffOrd in the kernel: of the
\* cells that define them one at a time, or of the cell holding the whole
\* program.
TutorialKernel == [totDiv |-> "cell", TotDiv |-> "cell", diffOrd |-> FALSE]
ProgramKernel == [totDiv |-> "program", TotDiv |-> "program", diffOrd |-> TRUE]

\* filter(lambda v: v not in X, L)
NotInX(Xs, L) == SelectSeq(L, LAMBDA s : \A a \in DOMAIN Xs : Xs[a] # s)

\* totDiv's loop: expr = expr + diff(P,J[j])*uJalpha(J[j],X[i],X,U); a None
\* from uJalpha is no operand of *  (j 1-based, i 0-based).
RECURSIVE totDivLoop(_, _, _, _, _, _, _)
totDivLoop(Xs, Us, P, i, J, j, expr) ==
    IF j > Len(J) THEN Return(expr)
    ELSE LET s == uJalpha(J[j], Xs[i + 1], Xs, Us)
         IN  IF s = None THEN Raise("TypeError")
             ELSE totDivLoop(Xs, Us, P, i, J, j + 1,
                     PolyAdd(expr, PolyMul(PolyDiff(P, J[j]), PolySym(s))))

\* totDiv_cell whose filter also drops the dependent variables U.
totDiv_cellWithoutU(Xs, Us, P, i, n) ==
    totDivLoop(Xs, Us, P, i, NotInX(Xs \o Us, fulljet(Xs, Us, n)), 1,
               PolyDiff(P, Xs[i + 1]))

\* totDiv_cell taking its coordinates from fulljet(X,U,n-1).
totDiv_cellCeilingShort(Xs, Us, P, i, n) ==
    totDivLoop(Xs, Us, P, i,
               NotInX(Xs, fulljet(Xs, Us, IF n = 0 THEN 0 ELSE n - 1)), 1,
               PolyDiff(P, Xs[i + 1]))

\* totDiv of the cell In[19], which names fulljet.
totDiv_cell(Xs, Us, P, i, n) ==
    totDivLoop(Xs, Us, P, i, NotInX(Xs, fulljet(Xs, Us, n)), 1,
               PolyDiff(P, Xs[i + 1]))

\* totDiv of the program cell, which names fullJet: no such name is bound.
totDiv_program(Xs, Us, P, i, n) == Raise("NameError")

\* A call of the name totDiv.
totDiv(Xs, Us, P, i, n) ==
    IF kernel.totDiv = "cell" THEN totDiv_cell(Xs, Us, P, i, n)
    ELSE totDiv_program(Xs, Us, P, i, n)

\* TotDiv's loop: for i in range(1,len(J)): expr = totDiv(X,U,expr,J[i],n);
\* r is the last totDiv call's outcome, an exception ends the loop.
RECURSIVE TotDivLoop(_, _, _, _, _, _)
TotDivLoop(Xs, Us, r, J, i, n) ==
    IF r.exc # "none" \/ i > Len(J) THEN r
    ELSE TotDivLoop(Xs, Us, totDiv(Xs, Us, r.val, J[i], n), J, i + 1, n)

\* TotDiv(X,U,P,J) of the cell In[21]: the ceiling is len(J)+1.
TotDiv_cell(Xs, Us, P, J) ==
    TotDivLoop(Xs, Us, totDiv(Xs, Us, P, J[1], Len(J) + 1), J, 2, Len(J) + 1)

\* TotDiv_program passing the ceiling n-1 to totDiv.
TotDiv_programCeilingShort(Xs, Us, P, n, J) ==
    TotDivLoop(Xs, Us, totDiv(Xs, Us, P, J[1], n - 1), J, 2, n - 1)

\* TotDiv(X,U,P,n,J) of the program cell: the ceiling is the argument n.
TotDiv_program(Xs, Us, P, n, J) ==
    TotDivLoop(Xs, Us, totDiv(Xs, Us, P, J[1], n), J, 2, n)

\* A call of the name TotDiv with four arguments, and with five.
TotDiv4(Xs, Us, P, J) ==
    IF kernel.TotDiv = "cell" THEN TotDiv_cell(Xs, Us, P, J)
    ELSE Raise("TypeError")

TotDiv5(Xs, Us, P, n, J) ==
    IF kernel.TotDiv = "program" THEN TotDiv_program(Xs, Us, P, n, J)
    ELSE Raise("TypeError")

----------------------------------------------------------------------------
(* Prolongation.                                                           *)

\* phiAlpha's first loop: a = a+xi[i]*uJalpha(U[q],X[i],X,U), xi = v[:len(X)];
\* i is 1-based, q 0-based; r is the outcome so far.
RECURSIVE phiAlphaA(_, _, _, _, _, _)
phiAlphaA(Xs, Us, vv, q, i, r) ==
    IF r.exc # "none" \/ i > Len(Xs) THEN r
    ELSE LET s == uJalpha(Us[q + 1], Xs[i], Xs, Us)
         IN  phiAlphaA(Xs, Us, vv, q, i + 1,
                 IF s = None THEN Raise("TypeError")
                 ELSE Return(PolyAdd(r.val, PolyMul(vv[i], PolySym(s)))))

\* phiAlpha's second loop: b = b+xi[i]*divUJi(X,U,U[q],J,i).
RECURSIVE phiAlphaB(_, _, _, _, _, _, _)
phiAlphaB(Xs, Us, vv, J, q, i, r) ==
    IF r.exc # "none" \/ i > Len(Xs) THEN r
    ELSE LET s == divUJi(Xs, Us, Us[q + 1], J, i - 1)
         IN  phiAlphaB(Xs, Us, vv, J, q, i + 1,
                 IF s = None THEN Raise("TypeError")
                 ELSE Return(PolyAdd(r.val, PolyMul(vv[i], PolySym(s)))))

\* phiAlpha: c = TotDiv(X,U,phi[q]-a,len(J),J)+b with phi = v[len(X):].
phiAlpha(Xs, Us, vv, J, q) ==
    LET a == phiAlphaA(Xs, Us, vv, q, 1, Return(Zero))
        b == phiAlphaB(Xs, Us, vv, J, q, 1, Return(Zero))
        d == TotDiv5(Xs, Us, PolySub(vv[Len(Xs) + q + 1], a.val), Len(J), J)
    IN  IF a.exc # "none" THEN a
        ELSE IF b.exc # "none" THEN b
        ELSE IF d.exc # "none" THEN d
        ELSE Return(PolyAdd(d.val, b.val))

\* combinations_with_replacement(range(lo, p), k) as a list, in the order
\* itertools yields it.
RECURSIVE combinations(_, _, _)
combinations(lo, p, k) ==
    IF k = 0 THEN <<  <<>> >>
    ELSE IF lo >= p THEN <<>>
    ELSE [t \in DOMAIN combinations(lo, p, k - 1) |->
              <<lo>> \o combinations(lo, p, k - 1)[t]]
         \o combinations(lo + 1, p, k)

\* diffOrd: b[i-1] = list(combinations_with_replacement(range(p),i)), i = 1..n.
diffOrd(p, n) == [i \in 1..n |-> combinations(0, p, i)]

\* Prolong's loops, flattened: step t = (i*len(X) + j)*len(U) + q appends
\* phiAlpha(X,U,v,J[i][j],q) to a, which is the list v itself.  The outcome
\* holds the list as the call leaves it, what the call returned or raised,
\* and the (J[i][j], q) of the coefficients it appended.
RECURSIVE ProlongLoop(_, _, _, _, _, _, _)
ProlongLoop(Xs, Us, vv, Jd, n, t, log) ==
    IF t >= n * Len(Xs) * Len(Us) THEN [v |-> vv, out |-> Return(vv), log |-> log]
    ELSE LET i == t \div (Len(Xs) * Len(Us))
             j == (t \div Len(Us)) % Len(Xs)
             q == t % Len(Us)
             c == phiAlpha(Xs, Us, vv, Jd[i + 1][j + 1], q)
         IN  IF c.exc # "none" THEN [v |-> vv, out |-> c, log |-> log]
             ELSE ProlongLoop(Xs, Us, Append(vv, c.val), Jd, n, t + 1,
                              Append(log, <<Jd[i + 1][j + 1], q>>))

\* Prolong: a = v; J = diffOrd(len(X),n); the loops; return a.
Prolong(Xs, Us, vv, n) ==
    IF ~kernel.diffOrd THEN [v |-> vv, out |-> Raise("NameError"), log |-> <<>>]
    ELSE ProlongLoop(Xs, Us, vv, diffOrd(Len(Xs), n), n, 0, <<>>)

----------------------------------------------------------------------------
(* Inputs.                                                                 *)

XLabels == {<<"x">>, <<"y">>, <<"z">>}
ULabels == <<  <<"u">>, <<"v">>, <<"w">> >>

\* The lists of 1..m distinct labels of S.
DistinctLists(S, m) ==
    {L \in UNION {[1..k -> S] : k \in 1..m} :
        \A a, b \in DOMAIN L : a # b => L[a] # L[b]}

\* The first 1..m labels of the list S.
Prefixes(S, m) == {SubSeq(S, 1, k) : k \in 1..(IF m < Len(S) THEN m ELSE Len(S))}

RECURSIVE Power(_, _)
Power(b, e) == IF e = 0 THEN 1 ELSE b * Power(b, e - 1)

\* The order-n candidates of the lists Xs and Us are few enough to scan.
Scannable(Xs, Us, n) == Len(Us) * Power(Len(Xs), n) <= MaxCandidates

NoCall == [fn |-> "none", n |-> 0]
NoOut == Return(None)

InitJet ==
    /\ kernel = TutorialKernel
    /\ X \in DistinctLists(XLabels, MaxP)
    /\ U \in Prefixes(ULabels, MaxQ)
    /\ v = <<>>
    /\ call = NoCall
    /\ out = NoOut

\* No cell is being evaluated.
Idle == call.fn = "none"

\* The evaluated cell's output has been shown; the kernel waits for the next.
NextCell ==
    /\ ~Idle
    /\ call' = NoCall
    /\ out' = NoOut
    /\ UNCHANGED <<kernel, X, U, v>>

CallJet ==
    /\ Idle
    /\ call' = [fn |-> "jet", n |-> 1]
    /\ out' = Return(jet(X, U))
    /\ UNCHANGED <<kernel, X, U, v>>

CallNjet ==
    \E n \in 1..MaxOrder :
        /\ Idle
        /\ Scannable(X, U, n)
        /\ call' = [fn |-> "njet", n |-> n]
        /\ out' = Return(njet(X, U, n))
        /\ UNCHANGED <<kernel, X, U, v>>

CallFulljet ==
    \E n \in 0..MaxOrder :
        /\ Idle
        /\ Scannable(X, U, n)
        /\ call' = [fn |-> "fulljet", n |-> n]
        /\ out' = Return(fulljet(X, U, n))
        /\ UNCHANGED <<kernel, X, U, v>>

NextJet == CallJet \/ CallNjet \/ CallFulljet \/ NextCell

SpecJet == InitJet /\ [][NextJet]_vars

\* Dependent-variable labels of which one has two characters.
TwoCharU == <<  <<"u">>, <<"a", "b">> >>

\* The longest multi-index J given to divUJi.
MaxJ == 2

\* The lists of 0..m positions of X.
Positions(m) == UNION {[1..k -> 0..(Len(X) - 1)] : k \in 0..m}

InitSym ==
    /\ kernel = TutorialKernel
    /\ X \in DistinctLists(XLabels, MaxP)
    /\ U \in Prefixes(ULabels, MaxQ) \cup {TwoCharU}
    /\ v = <<>>
    /\ call = NoCall
    /\ out = NoOut

\* uJalpha(s, x, X, U) for a dependent variable or jet symbol s and a label x.
CallUJalpha ==
    \E n \in 0..MaxJ, x \in XLabels :
        /\ Idle
        /\ Scannable(X, U, n)
        /\ LET F == IF n = 0 THEN U ELSE njet(X, U, n)
           IN  \E a \in DOMAIN F :
                /\ Scannable(X, U, Len(F[a]))
                /\ call' = [fn |-> "uJalpha", s |-> F[a], x |-> x]
                /\ out' = Return(uJalpha(F[a], x, X, U))
        /\ UNCHANGED <<kernel, X, U, v>>

\* divUJi(X, U, u, J, i) for u in U and positions J, i of X.
CallDivUJi ==
    \E a \in DOMAIN U, J \in Positions(MaxJ), i \in 0..(Len(X) - 1) :
        /\ Idle
        /\ Scannable(X, U, IF Len(U[a]) = 1 THEN Len(J) + 1 ELSE Len(str(None)))
        /\ call' = [fn |-> "divUJi", u |-> U[a], J |-> J, i |-> i]
        /\ out' = Return(divUJi(X, U, U[a], J, i))
        /\ UNCHANGED <<kernel, X, U, v>>

NextSym == CallUJalpha \/ CallDivUJi \/ NextCell

SpecSym == InitSym /\ [][NextSym]_vars

\* The highest derivative order of the jet symbols the input expressions are
\* built from.
MaxSymbolOrder == 2

XOrder == <<  <<"x">>, <<"y">>, <<"z">> >>

\* The elements of the list L.
Range(L) == {L[a] : a \in DOMAIN L}

\* The canonical symbol text of u differentiated by the positions K:
\* the labels in non-decreasing order of position.
RECURSIVE InsertPosition(_, _)
InsertPosition(K, i) ==
    IF K = <<>> THEN <<i>>
    ELSE IF i < Head(K) THEN <<i>> \o K
    ELSE <<Head(K)>> \o InsertPosition(Tail(K), i)

RECURSIVE LabelsAt(_, _)
LabelsAt(Xs, K) ==
    IF K = <<>> THEN <<>> ELSE Xs[Head(K) + 1] \o LabelsAt(Xs, Tail(K))

\* The input expressions: 1, the coordinates up to order MaxSymbolOrder, the
\* products of two coordinates up to order 1, and the notebook's examples
\* x*u*uxy and x*u*uxy+v spelled with the first and last labels.
InputExprs ==
    LET p == Len(X)
        all == Range(fulljet(X, U, MaxSymbolOrder))
        low == Range(fulljet(X, U, 1))
        example == PolyMul(PolySym(X[1]), PolyMul(PolySym(U[1]),
                       PolySym(U[1] \o X[1] \o X[p])))
    IN  {One} \cup {PolySym(s) : s \in all}
            \cup {PolyMul(PolySym(s), PolySym(t)) : s, t \in low}
            \cup {example, PolyAdd(example, PolySym(U[Len(U)]))}

\* Expressions with jet symbols of the orders MaxSymbolOrder+1 and +2.
HighOrderExprs ==
    LET p == Len(X)
        s3 == U[1] \o LabelsAt(X, [j \in 1..(MaxSymbolOrder + 1) |-> IF j = 1 THEN 0 ELSE p - 1])
        s4 == U[1] \o LabelsAt(X, [j \in 1..(MaxSymbolOrder + 2) |-> IF j = 1 THEN 0 ELSE p - 1])
    IN  {PolySym(s3), PolyMul(PolySym(X[1]), PolySym(s3)),
         PolySym(s4), PolyMul(PolySym(U[1]), PolySym(s4))}

InitDiv ==
    /\ kernel = TutorialKernel
    /\ X \in Prefixes(XOrder, MaxP) \cup {<<  <<"y">>, <<"x">> >>}
    /\ U \in Prefixes(ULabels, MaxQ)
    /\ Scannable(X, U, MaxSymbolOrder)
    /\ v = <<>>
    /\ call = NoCall
    /\ out = NoOut

\* totDiv(X, U, P, i, n)
CallTotDiv ==
    \E P \in InputExprs, i \in 0..(Len(X) - 1), n \in 0..(MaxOrder - 1) :
        /\ Idle
        /\ Scannable(X, U, n + 1)
        /\ call' = [fn |-> "totDiv", P |-> P, i |-> i, n |-> n]
        /\ out' = totDiv(X, U, P, i, n)
        /\ UNCHANGED <<kernel, X, U, v>>

\* TotDiv(X, U, P, J) for a non-empty J.
CallTotDivJ ==
    \E P \in InputExprs \cup HighOrderExprs, J \in Positions(MaxJ) \ {<<>>} :
        /\ Idle
        /\ Scannable(X, U, Len(J) + 2)
        /\ call' = [fn |-> "TotDiv", P |-> P, J |-> J]
        /\ out' = TotDiv4(X, U, P, J)
        /\ UNCHANGED <<kernel, X, U, v>>

NextDiv == CallTotDiv \/ CallTotDivJ \/ NextCell

SpecDiv == InitDiv /\ [][NextDiv]_vars

\* The longest list v a call of Prolong is given or leaves.
MaxFieldLen == 12

\* The vector field with xi_i = c[i] and phi_alpha = c[p + alpha].
\* Translations along each X[i], the scaling x d/dx + u d/du, and the field
\* u d/dx + x d/du spelled with the first labels.
Translation(p, q, i) == [t \in 1..(p + q) |-> IF t = i THEN One ELSE Zero]

Fields(Xs, Us) ==
    LET p == Len(Xs)
        q == Len(Us)
    IN  {Translation(p, q, i) : i \in 1..p}
            \cup {[t \in 1..(p + q) |->
                      IF t <= p THEN PolySym(Xs[t]) ELSE PolySym(Us[t - p])]}
            \cup {[t \in 1..(p + q) |->
                      IF t <= p THEN PolySym(Us[1]) ELSE PolySym(Xs[1])]}

InitProlong ==
    /\ kernel = TutorialKernel
    /\ X \in Prefixes(XOrder, MaxP) \cup {<<  <<"y">>, <<"x">> >>}
    /\ U \in Prefixes(ULabels, MaxQ)
    /\ v \in Fields(X, U)
    /\ call = NoCall
    /\ out = NoOut

\* The cell holding the whole program is run: it binds every name anew.
RunProgramCell ==
    /\ Idle
    /\ kernel' = ProgramKernel
    /\ UNCHANGED <<X, U, v, call, out>>

\* The cell In[19] is run: it binds totDiv.
RunTotDivCell ==
    /\ Idle
    /\ kernel' = [kernel EXCEPT !.totDiv = "cell"]
    /\ UNCHANGED <<X, U, v, call, out>>

\* The cell In[21] is run: it binds TotDiv.
RunTotDivJCell ==
    /\ Idle
    /\ kernel' = [kernel EXCEPT !.TotDiv = "cell"]
    /\ UNCHANGED <<X, U, v, call, out>>

\* Prolong(X, U, v, n) on the caller's list v.
CallProlong ==
    \E n \in 0..MaxJ :
        /\ Idle
        /\ Scannable(X, U, n + 1)
        /\ Len(v) + n * Len(X) * Len(U) <= MaxFieldLen
        /\ LET r == Prolong(X, U, v, n)
           IN  /\ call' = [fn |-> "Prolong", n |-> n, v0 |-> v, log |-> r.log]
               /\ out' = r.out
               /\ v' = r.v
        /\ UNCHANGED <<kernel, X, U>>

NextProlong ==
    \/ RunProgramCell
    \/ RunTotDivCell
    \/ RunTotDivJCell
    \/ CallProlong
    \/ NextCell

SpecProlong == InitProlong /\ [][NextProlong]_vars

\* phiAlpha(X, U, v, J, q) for a non-empty list J of positions of X and a
\* dependent-variable index q.
CallPhiAlpha ==
    \E J \in Positions(MaxJ) \ {<<>>}, q \in 0..(Len(U) - 1) :
        /\ Idle
        /\ Scannable(X, U, Len(J) + 1)
        /\ call' = [fn |-> "phiAlpha", J |-> J, q |-> q]
        /\ out' = phiAlpha(X, U, v, J, q)
        /\ UNCHANGED <<kernel, X, U, v>>

NextPhi ==
    \/ RunProgramCell
    \/ RunTotDivCell
    \/ RunTotDivJCell
    \/ CallPhiAlpha
    \/ NextCell

SpecPhi == InitProlong /\ [][NextPhi]_vars

----------------------------------------------------------------------------
(* Properties of the jet-space builders.                                   *)

\* The binomial coefficient C(n, k), by Pascal's rule.
RECURSIVE Choose(_, _)
Choose(n, k) ==
    IF k = 0 THEN 1
    ELSE IF n = 0 THEN 0
    ELSE Choose(n - 1, k - 1) + Choose(n - 1, k)

\* The number of k-element multisets drawn from p things.
Multichoose(p, k) == Choose(p + k - 1, k)

\* No two elements of the list L are made of the same characters.
NoSameMultiset(L) ==
    \A a, b \in DOMAIN L : a # b => sorted(L[a]) # sorted(L[b])

RECURSIVE SumMultichoose(_, _)
SumMultichoose(p, n) ==
    IF n = 0 THEN 0 ELSE SumMultichoose(p, n - 1) + Multichoose(p, n)

\* Where the order-k band of fulljet starts (0-based), by the closed form.
BandStart(k) == Len(X) + Len(U) + Len(U) * SumMultichoose(Len(X), k - 1)

\* C1: njet(X,U,k) returns exactly q*C(p+k-1,k) symbols, no two with the same
\* multiset of characters; every symbol returned is one of the generated
\* candidates and every candidate's multiset is still represented.
C1_NjetExactlyTheMultisets ==
    call.fn = "njet" =>
        LET cand == njetCandidates(X, U, call.n)
            J == out.val
        IN  /\ out.exc = "none"
            /\ Len(J) = Len(U) * Multichoose(Len(X), call.n)
            /\ NoSameMultiset(J)
            /\ \A a \in DOMAIN J : \E c \in DOMAIN cand : J[a] = cand[c]
            /\ \A c \in DOMAIN cand :
                    \E a \in DOMAIN J : sorted(J[a]) = sorted(cand[c])

\* An njet call whose scan removed duplicates, some of them adjacent to the
\* end of the list.
C1_Witness ==
    /\ call.fn = "njet"
    /\ call.n = 3
    /\ Len(X) = 3
    /\ Len(U) = 2
    /\ Len(out.val) = 20
    /\ Len(njetCandidates(X, U, 3)) = 54

\* C2: fulljet(X,U,n) is X ++ U ++ njet(X,U,1) ++ ... ++ njet(X,U,n): its
\* length is p + q + q*sum_{k=1..n} C(p+k-1,k), the order-k band is
\* njet(X,U,k) and holds no two symbols with the same multiset, and for
\* n = 0 the result is X ++ U.
C2_FulljetIsBandConcatenation ==
    call.fn = "fulljet" =>
        LET J == out.val
            p == Len(X)
            q == Len(U)
        IN  /\ out.exc = "none"
            /\ Len(J) = p + q + q * SumMultichoose(p, call.n)
            /\ SubSeq(J, 1, p) = X
            /\ SubSeq(J, p + 1, p + q) = U
            /\ call.n = 0 => J = X \o U
            /\ \A k \in 1..call.n :
                    LET band == SubSeq(J, BandStart(k) + 1, BandStart(k + 1))
                    IN  /\ band = njet(X, U, k)
                        /\ Len(band) = q * Multichoose(p, k)
                        /\ NoSameMultiset(band)

\* fulljet(['x','y'],['u','v'],2): 2+2+4+6 = 14 symbols.
C2_Witness ==
    /\ call.fn = "fulljet"
    /\ call.n = 2
    /\ X = << <<"x">>, <<"y">> >>
    /\ U = << <<"u">>, <<"v">> >>
    /\ Len(out.val) = 14
    /\ out.val[10] = <<"u", "x", "y">>

----------------------------------------------------------------------------
(* Properties of the derivative symbols.                                   *)

\* Every label of the list L is one character.
SingleChar(L) == \A a \in DOMAIN L : Len(L[a]) = 1

\* The labels X[j] of the positions in K, concatenated.
RECURSIVE LabelsOf(_)
LabelsOf(K) == IF K = <<>> THEN <<>> ELSE X[Head(K) + 1] \o LabelsOf(Tail(K))

\* How often position a occurs in the list K.
Occurrences(K, a) == Cardinality({j \in DOMAIN K : K[j] = a})

\* The lists of positions that reorder K.
Reorderings(K) ==
    {R \in [1..Len(K) -> 0..(Len(X) - 1)] :
        \A a \in 0..(Len(X) - 1) : Occurrences(R, a) = Occurrences(K, a)}

\* C3: for single-character labels, divUJi(X,U,u,J,i) returns the one symbol
\* of njet(X,U,|J|+1) made of the characters of u, the X[j] for j in J, and
\* X[i]; every reordering of J ++ [i] gives the same symbol.
C3_DivUJiIsTheCanonicalSymbol ==
    (call.fn = "divUJi" /\ SingleChar(U)) =>
        LET K == Append(call.J, call.i)
            band == njet(X, U, Len(K))
            key == sorted(call.u \o LabelsOf(K))
            hits == {a \in DOMAIN band : sorted(band[a]) = key}
        IN  /\ out.exc = "none"
            /\ Cardinality(hits) = 1
            /\ \A a \in hits : out.val = band[a]
            /\ \A R \in Reorderings(K) :
                    divUJi(X, U, call.u, SubSeq(R, 1, Len(R) - 1), R[Len(R)])
                        = out.val

\* divUJi(['x','y'],['u'],'u',[1,0],1) = uxyy.
C3_Witness ==
    /\ call.fn = "divUJi"
    /\ X = << <<"x">>, <<"y">> >>
    /\ U = << <<"u">> >>
    /\ call.u = <<"u">>
    /\ call.J = <<1, 0>>
    /\ call.i = 1
    /\ out.val = <<"u", "x", "y", "y">>

\* The positions of K in non-decreasing order.
RECURSIVE SortedPositions(_)
SortedPositions(K) ==
    IF K = <<>> THEN <<>> ELSE InsertPosition(SortedPositions(Tail(K)), Head(K))

\* C11 as stated: the text of the symbol divUJi resolves lists the labels in
\* the order the differentiations were applied.
C11_SymbolTextInApplicationOrder ==
    (call.fn = "divUJi" /\ SingleChar(U)) =>
        out.val = call.u \o LabelsOf(Append(call.J, call.i))

\* C11, amended: the text of the symbol divUJi resolves lists the labels in
\* non-decreasing order of their position in X, whatever the order the
\* differentiations were applied in.
C11_SymbolTextInOrderOfX ==
    (call.fn = "divUJi" /\ SingleChar(U)) =>
        out.val = call.u \o LabelsOf(SortedPositions(Append(call.J, call.i)))

\* u differentiated by x, y, y with X = ['y','x'] is spelled uyyx: neither
\* the order of application nor the order of the characters.
C11_Witness ==
    /\ call.fn = "divUJi"
    /\ X = << <<"y">>, <<"x">> >>
    /\ call.u = <<"u">>
    /\ call.J = <<1, 0>>
    /\ call.i = 0
    /\ out.val = <<"u", "y", "y", "x">>

\* No symbol of the jet space uJalpha rebuilds for s is made of the
\* characters of s and x.
NoSymbolFor(s, x) ==
    \A a \in DOMAIN njet(X, U, Len(str(s))) :
        sorted(njet(X, U, Len(str(s)))[a]) # sorted(str(s) \o str(x))

\* C9: when no symbol of the rebuilt jet space matches, uJalpha raises a
\* lookup error and returns no value.
C9_UJalphaRaisesWhenNoSymbol ==
    (call.fn = "uJalpha" /\ NoSymbolFor(call.s, call.x)) =>
        out.exc = "LookupError"

----------------------------------------------------------------------------
(* Properties of the total derivatives.                                    *)

\* The non-decreasing lists of k positions of X.
MultiIndices(k) ==
    {K \in [1..k -> 0..(Len(X) - 1)] : \A j \in 1..(k - 1) : K[j] <= K[j + 1]}

\* The coordinates u^alpha_K other than X up to order n, as pairs <<alpha, K>>.
Coordinates(n) == (DOMAIN U) \X (UNION {MultiIndices(k) : k \in 0..n})

\* The symbol u^alpha_K in canonical text.
CanonicalSymbol(alpha, K) == U[alpha] \o LabelsAt(X, K)

\* The sum over the coordinates c in S of (dP/dc) * c_{,i}.
RECURSIVE ChainRuleSum(_, _, _)
ChainRuleSum(P, i, S) ==
    IF S = {} THEN Zero
    ELSE LET c == CHOOSE c \in S : TRUE
             term == PolyMul(PolyDiff(P, CanonicalSymbol(c[1], c[2])),
                         PolySym(CanonicalSymbol(c[1], InsertPosition(c[2], i))))
         IN  PolyAdd(term, ChainRuleSum(P, i, S \ {c}))

\* C4: totDiv(X,U,P,i,n) is dP/dX[i] plus, for each coordinate s of
\* fulljet(X,U,n) that is no independent variable, one term (dP/ds) times the
\* symbol of s differentiated once more by X[i], and nothing else.
C4_TotDivIsTheChainRule ==
    (call.fn = "totDiv" /\ kernel.totDiv = "cell") =>
        /\ out.exc = "none"
        /\ out.val = PolyAdd(PolyDiff(call.P, X[call.i + 1]),
                        ChainRuleSum(call.P, call.i, Coordinates(call.n)))

\* totDiv(['x','y'],['u'],'x*u*uxy',0,2) = u*uxxy*x + u*uxy + ux*uxy*x.
C4_Witness ==
    /\ call.fn = "totDiv"
    /\ kernel.totDiv = "cell"
    /\ X = << <<"x">>, <<"y">> >>
    /\ U = << <<"u">> >>
    /\ call.i = 0
    /\ call.n = 2
    /\ call.P = PolyMul(PolySym(<<"x">>),
                    PolyMul(PolySym(<<"u">>), PolySym(<<"u", "x", "y">>)))
    /\ out.val =
          PolyAdd(PolyMul(PolySym(<<"u">>),
                      PolyMul(PolySym(<<"u", "x", "x", "y">>), PolySym(<<"x">>))),
              PolyAdd(PolyMul(PolySym(<<"u">>), PolySym(<<"u", "x", "y">>)),
                  PolyMul(PolySym(<<"u", "x">>),
                      PolyMul(PolySym(<<"u", "x", "y">>), PolySym(<<"x">>)))))

\* The highest derivative order of a jet symbol of U occurring in P.
SymbolsOf(P) == UNION {DOMAIN m : m \in DOMAIN P}

\* C5: TotDiv with J = [a,b] and with J = [b,a] gives equal expressions, also
\* for a P holding symbols of an order above the ceiling |J|+1.
C5_TotDivCommutes ==
    (call.fn = "TotDiv" /\ Len(call.J) = 2 /\ kernel = TutorialKernel) =>
        /\ out.exc = "none"
        /\ TotDiv4(X, U, call.P, <<call.J[2], call.J[1]>>) = out

\* D_x D_y of an expression that holds a symbol of order 4, above the ceiling
\* 3, and is not annihilated.
C5_Witness ==
    /\ call.fn = "TotDiv"
    /\ kernel = TutorialKernel
    /\ Len(X) = 2
    /\ call.J = <<0, 1>>
    /\ \E s \in SymbolsOf(call.P) : Len(s) = 5
    /\ Cardinality(DOMAIN call.P) = 1
    /\ out.exc = "none"
    /\ out.val # Zero

----------------------------------------------------------------------------
(* Properties of the prolongation.                                         *)

\* The pairs <<J, alpha>> of a canonical multi-index J with 1 <= |J| <= n and
\* a dependent-variable index alpha (0-based).
CoefficientPairs(n) ==
    (UNION {MultiIndices(k) : k \in 1..n}) \X (0..(Len(U) - 1))

\* Prolong returned, and was asked for more than v itself.
Prolonged == call.fn = "Prolong" /\ out.exc = "none" /\ call.n >= 1

\* C6: Prolong(X,U,v,n), n >= 1, appends exactly one coefficient for every
\* pair of a dependent variable and a canonical multi-index J, 1 <= |J| <= n:
\* none is missing and none occurs twice.
C6_OneCoefficientPerMultiIndex ==
    Prolonged =>
        \A c \in CoefficientPairs(call.n) :
            Cardinality({t \in DOMAIN call.log : call.log[t] = c}) = 1

\* The position (0-based) in Prolong's result of the coefficient of order k,
\* independent-variable position j and dependent-variable index alpha.
CoefficientIndex(k, j, alpha) ==
    Len(X) + Len(U) + (k - 1) * Len(X) * Len(U) + j * Len(U) + alpha

\* The result has the components of the field v0 first, then n*p*q
\* coefficients, the one of (k, j, alpha) at CoefficientIndex(k, j, alpha).
ProlongLayout(v0, n, res) ==
    /\ Len(res) = Len(v0) + n * Len(X) * Len(U)
    /\ SubSeq(res, 1, Len(v0)) = v0
    /\ \A k \in 1..n, j \in 0..(Len(X) - 1), alpha \in 0..(Len(U) - 1) :
            Return(res[CoefficientIndex(k, j, alpha) + 1 + (Len(v0) - Len(X) - Len(U))])
                = phiAlpha(X, U, v0, diffOrd(Len(X), n)[k][j + 1], alpha)

\* C7: Prolong(X,U,v,n) returns v's p+q components followed by n*p*q
\* coefficients ordered by order k, then position j, then index alpha.
C7_ProlongReturnsTheLayout ==
    (call.fn = "Prolong" /\ Len(call.v0) = Len(X) + Len(U)) =>
        /\ out.exc = "none"
        /\ ProlongLayout(call.v0, call.n, out.val)

\* Whenever Prolong does return, its result has that layout.
ProlongLayoutWhenReturned ==
    (call.fn = "Prolong" /\ out.exc = "none") =>
        ProlongLayout(call.v0, call.n, out.val)

\* The field v0 is a translation generator: one xi is 1, all else is 0.
IsTranslation(v0) ==
    /\ Len(v0) = Len(X) + Len(U)
    /\ \E i \in 1..Len(X) : v0 = Translation(Len(X), Len(U), i)

\* C8: for a translation generator every coefficient Prolong appends is 0.
C8_TranslationProlongsToZero ==
    (call.fn = "Prolong" /\ kernel.diffOrd /\ IsTranslation(call.v0)
        /\ call.n >= 1) =>
        /\ out.exc = "none"
        /\ Len(out.val) > Len(call.v0)
        /\ \A t \in (Len(call.v0) + 1)..Len(out.val) : out.val[t] = Zero

\* Whenever Prolong does return for a translation generator, the appended
\* coefficients are 0.
TranslationZeroWhenReturned ==
    (Prolonged /\ IsTranslation(call.v0)) =>
        \A t \in (Len(call.v0) + 1)..Len(out.val) : out.val[t] = Zero

\* C10: Prolong leaves the caller's list v as it was given.
C10_ProlongLeavesVUnchanged ==
    call.fn = "Prolong" => v = call.v0

----------------------------------------------------------------------------
(* Properties of the spellings njet keeps.                                 *)

\* The candidate s is the first of the list cand made of its characters.
FirstOfItsClass(cand, s) ==
    \A c \in DOMAIN cand :
        sorted(cand[c]) = sorted(s) => \E d \in 1..c : cand[d] = s

\* C12: njet(X,U,n) keeps, of every class of candidates made of the same
\* characters, the one generated first, in the order of generation; each
\* returned symbol lists its labels in non-decreasing order of position in X.
C12_NjetKeepsTheFirstSpelling ==
    call.fn = "njet" =>
        LET cand == njetCandidates(X, U, call.n)
        IN  /\ out.val = SelectSeq(cand, LAMBDA s : FirstOfItsClass(cand, s))
            /\ \A a \in DOMAIN out.val :
                    \E c \in Coordinates(call.n) :
                        /\ Len(c[2]) = call.n
                        /\ out.val[a] = CanonicalSymbol(c[1], c[2])

\* njet(['y','x'],['u','v'],2) = [uyy, uyx, uxx, vyy, vyx, vxx]: uyx is kept
\* and uxy removed, the order of X deciding.
C12_Witness ==
    /\ call.fn = "njet"
    /\ call.n = 2
    /\ X = << <<"y">>, <<"x">> >>
    /\ U = << <<"u">>, <<"v">> >>
    /\ out.val = << <<"u", "y", "y">>, <<"u", "y", "x">>, <<"u", "x", "x">>,
                    <<"v", "y", "y">>, <<"v", "y", "x">>, <<"v", "x", "x">> >>

----------------------------------------------------------------------------
(* Properties of the order ceiling.                                        *)

\* The symbols of P that are no independent variables, and the highest
\* derivative order among them (labels of one character).
JetSymbolsOf(P) == {s \in SymbolsOf(P) : \A a \in DOMAIN X : X[a] # s}

HighestOrder(P) ==
    CHOOSE m \in 0..(MaxSymbolOrder + MaxJ) :
        /\ \E s \in JetSymbolsOf(P) : Len(s) - 1 = m
        /\ \A s \in JetSymbolsOf(P) : Len(s) - 1 <= m

\* The total derivative of P by X[i] with the chain-rule term of every
\* coordinate up to order m.
FullTotalDerivative(P, i, m) ==
    PolyAdd(PolyDiff(P, X[i + 1]), ChainRuleSum(P, i, Coordinates(m)))

\* The chain-rule terms of the coordinates of an order above n, up to m.
TermsAbove(P, i, n, m) ==
    ChainRuleSum(P, i, {c \in Coordinates(m) : Len(c[2]) > n})

\* C13 as stated: when the ceiling n is below the highest order in P plus
\* one, totDiv leaves out a chain-rule term of P, and raises nothing.
C13_TermOmittedBelowOrderPlusOne ==
    (call.fn = "totDiv" /\ kernel.totDiv = "cell" /\ JetSymbolsOf(call.P) # {}
        /\ call.n < HighestOrder(call.P) + 1) =>
        /\ out.exc = "none"
        /\ out.val # FullTotalDerivative(call.P, call.i, MaxSymbolOrder)

\* C13, amended: totDiv leaves out exactly the chain-rule terms of the
\* symbols of an order above n, so a term of P is missing exactly when n is
\* below the highest order in P; it raises nothing either way.
C13_TermOmittedBelowOrder ==
    (call.fn = "totDiv" /\ kernel.totDiv = "cell" /\ JetSymbolsOf(call.P) # {}) =>
        LET full == FullTotalDerivative(call.P, call.i, MaxSymbolOrder)
            above == TermsAbove(call.P, call.i, call.n, MaxSymbolOrder)
        IN  /\ out.exc = "none"
            /\ out.val = PolySub(full, above)
            /\ (above # Zero) <=> (call.n < HighestOrder(call.P))
            /\ (out.val # full) <=> (call.n < HighestOrder(call.P))

\* totDiv(['x','y'],['u'],'uxy',0,1) = 0: the term uxxy is left out.
C13_Witness ==
    /\ call.fn = "totDiv"
    /\ kernel.totDiv = "cell"
    /\ X = << <<"x">>, <<"y">> >>
    /\ call.P = PolySym(<<"u", "x", "y">>)
    /\ call.i = 0
    /\ call.n = 1
    /\ out = Return(Zero)

----------------------------------------------------------------------------
(* Properties of the order uJalpha rebuilds.                               *)

\* The derivative order of the jet symbol s: the number of labels of X that
\* follow the label of its dependent variable.
DerivativeOrder(s) ==
    CHOOSE m \in 0..Len(s) :
        \E a \in DOMAIN U :
            /\ Len(s) = Len(U[a]) + m
            /\ SubSeq(s, 1, Len(U[a])) = U[a]

\* The order of the jet space uJalpha rebuilds for u: len(str(u)).
RebuiltOrder(u) == Len(str(u))

\* C14: for labels of any length, uJalpha(s,x,X,U) with s of derivative
\* order m and x in X rebuilds the jet space of order m+1 and returns one of
\* its symbols.
C14_UJalphaRebuildsTheNextOrder ==
    (call.fn = "uJalpha" /\ call.x \in Range(X)) =>
        /\ RebuiltOrder(call.s) = DerivativeOrder(call.s) + 1
        /\ out.val \in Range(njet(X, U, DerivativeOrder(call.s) + 1))

\* With labels of one character uJalpha does rebuild the order m+1.
UJalphaNextOrderForSingleChar ==
    (call.fn = "uJalpha" /\ call.x \in Range(X) /\ SingleChar(U)) =>
        /\ RebuiltOrder(call.s) = DerivativeOrder(call.s) + 1
        /\ out.val \in Range(njet(X, U, DerivativeOrder(call.s) + 1))

----------------------------------------------------------------------------
(* Properties of the ceiling phiAlpha passes.                              *)

\* The expression phiAlpha gives to TotDiv: phi[q] - a.
PhiAlphaArgument(q) ==
    PolySub(v[Len(X) + q + 1], phiAlphaA(X, U, v, q, 1, Return(Zero)).val)

\* The outcome of the first t-1 totDiv applications of TotDiv(X,U,P,n,J): the
\* expression the t-th application is given.
Entering(P, n, J, t) ==
    IF t = 1 THEN Return(P) ELSE TotDiv_program(X, U, P, n, SubSeq(J, 1, t - 1))

\* The total derivatives by J[t], J[t+1], ... of P, no term left out.
RECURSIVE FullTotDiv(_, _, _)
FullTotDiv(P, J, t) ==
    IF t > Len(J) THEN P
    ELSE FullTotDiv(FullTotalDerivative(P, J[t], MaxJ + 1), J, t + 1)

\* C15: in phiAlpha every totDiv application of TotDiv is given an
\* expression whose highest derivative order is at most the ceiling |J|, and
\* the coefficient returned holds every chain-rule term.
C15_PhiAlphaCeilingSuffices ==
    call.fn = "phiAlpha" =>
        LET P == PhiAlphaArgument(call.q)
            n == Len(call.J)
            b == phiAlphaB(X, U, v, call.J, call.q, 1, Return(Zero))
        IN  /\ \A t \in 1..n :
                    LET e == Entering(P, n, call.J, t)
                    IN  e.exc = "none" =>
                            \/ JetSymbolsOf(e.val) = {}
                            \/ HighestOrder(e.val) <= n
            /\ out.exc = "none" =>
                    out.val = PolyAdd(FullTotDiv(P, call.J, 1), b.val)

\* phiAlpha with J = [0,1] on a field that is no translation: the second
\* totDiv application is given an expression of order 2, the ceiling, and the
\* coefficient returned is not 0.
C15_Witness ==
    /\ call.fn = "phiAlpha"
    /\ call.J = <<0, 1>>
    /\ out.exc = "none"
    /\ out.val # Zero
    /\ Entering(PhiAlphaArgument(call.q), 2, call.J, 2).exc = "none"
    /\ HighestOrder(Entering(PhiAlphaArgument(call.q), 2, call.J, 2).val) = 2

====
